---- MODULE Spec2Model ----
(***************************************************************************)
(* Realtime session synchronisation of the AI Monitor dashboard:           *)
(*   - the push channel hook      frontend/src/hooks/useWebSocket.ts       *)
(*   - the metrics poll hook      frontend/src/hooks/useAudioMetrics.ts    *)
(*   - the session store          store/session.store   (unnamed/part_007) *)
(*   - the session controller     hooks/useSession      (unnamed/part_008) *)
(*   - the page that wires them   frontend/src/app/dashboard/page.tsx      *)
(*   - the error toast            components/ErrorToast (unnamed/part_004) *)
(*   - the video frame poll       WebRTCVideoStream     (unnamed/part_003) *)
(*                                                                         *)
(* Every handler (a transport event, a timer callback, a fetch completion, *)
(* a click) runs to completion, so each is one action.  The handlers of    *)
(* the hook are written as operators on the record H of the hook's refs    *)
(* and React state, so that a handler that calls another (the reconnect    *)
(* timer calls connect, the effect calls disconnect then connect) is the   *)
(* composition of the operators.  The operators on the store take and      *)
(* return the store record, as zustand's set() does.                       *)
(***************************************************************************)
EXTENDS Integers, Sequences, FiniteSets, Bags, TLC

(***************************************************************************)
(* Bounds of the model and constants of the program.                       *)
(***************************************************************************)
\* transports (WebSocket objects) that may be alive at the same time
MaxSockets == 2
\* reconnect timers that may be pending at the same time
MaxTimers == 2
\* the hook's option reconnectAttempts (default 5), as configured in the model
reconnectAttempts == 1
\* useWebSocket.ts:54
MAX_MISSED_PONGS == 3
\* state.reconnectCount is not bounded by the code; the model stops
\* reconnect timers from firing once it has passed reconnectAttempts
MaxReconnectCount == reconnectAttempts + 1

\* getLiveMetrics requests that may be in flight at the same time
MaxInFlight == 1

NoSession == ""
SessionIds == {"A"}
Null == "null"
\* null where an object may stand
NullObject == [null |-> TRUE]
ConnectionError == "WebSocket connection error"

VARIABLES
    sessionId,            \* the hook's sessionId option (Dashboard: store.session.id)
    state,                \* useState<WebSocketState>
    wsRef,                \* wsRef.current: a WebSocket, or NullObject
    pingIntervalRef,      \* TRUE while the heartbeat interval is registered
    reconnectTimeoutRef,  \* reconnectTimeoutRef.current: a timeout, or NullObject
    shouldReconnectRef,
    missedPongsRef,
    sockets,              \* the bag of the WebSockets wsRef has let go of whose
                          \* close event is still to come
    timers,               \* the bag of the pending reconnect timeouts
                          \* reconnectTimeoutRef has let go of
    effects,              \* what the last handler did towards the outside: the
                          \* consumer callbacks invoked, the frame handled,
                          \* the heartbeat tick's outcome
    store,                \* the zustand session store
    audioEnabled,         \* Dashboard's audioEnabled: the metrics poll's `enabled`
    intervalRef,          \* useAudioMetrics: TRUE while the poll interval is registered
    intervals,            \* the intervals of useAudioMetrics registered and not cleared
    inflight,             \* getLiveMetrics requests awaiting their response
    analyzing,            \* TRUE while analyzeSession awaits resultApi.analyze
    toast,                \* ErrorToast's pending timeouts
    stream                \* WebRTCVideoStream's frame poll and Dashboard's videoEnabled

hookVars == <<sessionId, state, wsRef, pingIntervalRef, reconnectTimeoutRef,
              shouldReconnectRef, missedPongsRef, sockets, timers, effects>>

appVars == <<store, audioEnabled, intervalRef, intervals, inflight, analyzing,
             toast, stream>>

vars == <<hookVars, appVars>>

(***************************************************************************)
(* The hook's refs and React state as one record, and its write-back.      *)
(***************************************************************************)
H == [state |-> state, wsRef |-> wsRef, pingIntervalRef |-> pingIntervalRef,
      reconnectTimeoutRef |-> reconnectTimeoutRef,
      shouldReconnectRef |-> shouldReconnectRef,
      missedPongsRef |-> missedPongsRef, sockets |-> sockets,
      timers |-> timers, effects |-> {}]

SetH(h) ==
    /\ state' = h.state
    /\ wsRef' = h.wsRef
    /\ pingIntervalRef' = h.pingIntervalRef
    /\ reconnectTimeoutRef' = h.reconnectTimeoutRef
    /\ shouldReconnectRef' = h.shouldReconnectRef
    /\ missedPongsRef' = h.missedPongsRef
    /\ sockets' = h.sockets
    /\ timers' = h.timers
    /\ effects' = h.effects

\* useState's initial value (lastMessage is written but read by no handler
\* and is left out; lastHeartbeat is Null or "now", the time of the latest
\* liveness response)
InitialState ==
    [isConnected |-> FALSE, isConnecting |-> FALSE, error |-> Null,
     reconnectCount |-> 0, lastHeartbeat |-> Null, missedPongs |-> 0]

\* a WebSocket: readyState, the sessionId and state.reconnectCount its
\* handlers closed over, and whether its open event has fired; NoSocket is
\* one whose close event has fired
NoSocket ==
    [ready |-> "CLOSED", sid |-> NoSession, cap |-> 0, opened |-> FALSE]

\* a reconnect timeout and the connect closure (sessionId, state.reconnectCount)
\* its callback calls; NoTimer is one that has fired or was cleared
NoTimer == [pending |-> FALSE, sid |-> NoSession, cap |-> 0]

\* a WebSocket with events to come
HasEvents(ws) == ws # NullObject /\ ws.ready # "CLOSED"

IsPending(timer) == timer # NullObject /\ timer.pending

\* the WebSockets with events to come and the pending timeouts: cur tells
\* the one the ref holds from the ones it has let go of
Sockets ==
    {[cur |-> TRUE, ws |-> ws] : ws \in IF HasEvents(wsRef) THEN {wsRef} ELSE {}}
        \cup {[cur |-> FALSE, ws |-> ws] : ws \in BagToSet(sockets)}

Timers ==
    {[cur |-> TRUE, timer |-> x] :
         x \in IF IsPending(reconnectTimeoutRef) THEN {reconnectTimeoutRef} ELSE {}}
        \cup {[cur |-> FALSE, timer |-> x] : x \in BagToSet(timers)}

NumSockets(h) ==
    BagCardinality(h.sockets) + (IF HasEvents(h.wsRef) THEN 1 ELSE 0)

NumTimers(h) ==
    BagCardinality(h.timers) + (IF IsPending(h.reconnectTimeoutRef) THEN 1 ELSE 0)

IsOpen(h) == h.wsRef # NullObject /\ h.wsRef.ready = "OPEN"

Emit(h, e) == [h EXCEPT !.effects = @ \cup {e}]

\* wsRef.current = ws: the WebSocket it held stays alive for its events
setWsRef(h, ws) ==
    [h EXCEPT !.sockets = IF HasEvents(h.wsRef)
                          THEN @ (+) SetToBag({h.wsRef}) ELSE @,
              !.wsRef = ws]

\* reconnectTimeoutRef.current = timer: a pending timeout it held stays
\* pending
setReconnectTimeoutRef(h, timer) ==
    [h EXCEPT !.timers = IF IsPending(h.reconnectTimeoutRef)
                         THEN @ (+) SetToBag({h.reconnectTimeoutRef}) ELSE @,
              !.reconnectTimeoutRef = timer]

\* the readyState of socket t becomes ready
setReadyState(h, t, ready) ==
    LET ws == IF ready = "CLOSED" THEN NoSocket
              ELSE [t.ws EXCEPT !.ready = ready, !.opened = @ \/ ready = "OPEN"]
    IN  IF t.cur
        THEN [h EXCEPT !.wsRef = ws]
        ELSE [h EXCEPT !.sockets =
                  (@ (-) SetToBag({t.ws}))
                      (+) (IF ready = "CLOSED" THEN EmptyBag ELSE SetToBag({ws}))]

\* wsRef.current.close(): starts the closing handshake of a socket that is
\* connecting or open; the close event comes later
wsClose(h) ==
    IF h.wsRef.ready \in {"CONNECTING", "OPEN"}
    THEN [h EXCEPT !.wsRef.ready = "CLOSING"]
    ELSE h

startPing(h) ==
    [h EXCEPT !.pingIntervalRef = TRUE, !.missedPongsRef = 0]

\* stopPing without its clearInterval: only the counter is reset
stopPingKeepsInterval(h) ==
    [h EXCEPT !.missedPongsRef = 0]

stopPing(h) ==
    [h EXCEPT !.pingIntervalRef = FALSE, !.missedPongsRef = 0]

\* the heartbeat interval's callback; effects records what the tick did:
\* "ping" a probe was sent, "hbClose" the socket was closed as dead,
\* "idleTick" nothing
pingTick(h) ==
    IF IsOpen(h)
    THEN LET h1 == [h EXCEPT !.missedPongsRef = @ + 1]
         IN  IF h1.missedPongsRef > MAX_MISSED_PONGS
             THEN Emit(wsClose(h1), "hbClose")
             ELSE [Emit(h1, "ping") EXCEPT !.state.missedPongs = h1.missedPongsRef]
    ELSE Emit(h, "idleTick")

\* connect, as created by the render that saw sessionId sid and
\* state.reconnectCount cap
connect(h, sid, cap) ==
    IF IsOpen(h)
    THEN h
    ELSE LET h1 == [h EXCEPT !.state.isConnecting = TRUE,
                             !.state.error = Null]
         IN  setWsRef(h1, [ready |-> "CONNECTING", sid |-> sid, cap |-> cap,
                           opened |-> FALSE])

\* connect opens a socket unless the current one is open: the model keeps
\* at most MaxSockets alive
CanConnect(h) == IsOpen(h) \/ NumSockets(h) < MaxSockets

\* onopen without the reset of reconnectCount
onopenKeepsCount(h, t) ==
    LET h1 == [setReadyState(h, t, "OPEN") EXCEPT
                  !.state.isConnected = TRUE,
                  !.state.isConnecting = FALSE,
                  !.state.error = Null]
    IN  Emit(startPing(h1), "onConnect")

onopen(h, t) ==
    LET h1 == [setReadyState(h, t, "OPEN") EXCEPT
                  !.state.isConnected = TRUE,
                  !.state.isConnecting = FALSE,
                  !.state.error = Null,
                  !.state.reconnectCount = 0]
    IN  Emit(startPing(h1), "onConnect")

onerror(h, t) ==
    Emit([h EXCEPT !.state.error = ConnectionError,
                   !.state.isConnecting = FALSE], "onError")

\* the timeout scheduled by onclose
scheduleReconnect(h, t) ==
    setReconnectTimeoutRef(h, [pending |-> TRUE, sid |-> t.ws.sid,
                               cap |-> t.ws.cap])

WillReconnect(h, t) ==
    h.shouldReconnectRef /\ t.ws.cap < reconnectAttempts

\* the model keeps at most MaxTimers timeouts pending
CanClose(h, t) == WillReconnect(h, t) => NumTimers(h) < MaxTimers

onclose(h, t) ==
    LET h1 == [setReadyState(h, t, "CLOSED") EXCEPT
                  !.state.isConnected = FALSE,
                  !.state.isConnecting = FALSE]
        h2 == Emit(stopPing(h1), "onDisconnect")
    IN  IF WillReconnect(h2, t) THEN scheduleReconnect(h2, t) ELSE h2

\* the reconnect timeout's callback; the ref keeps the handle of a timeout
\* that has fired
reconnectFire(h, k) ==
    LET h1 == IF k.cur
              THEN [h EXCEPT !.reconnectTimeoutRef = NoTimer]
              ELSE [h EXCEPT !.timers = @ (-) SetToBag({k.timer})]
        h2 == [h1 EXCEPT !.state.reconnectCount = @ + 1]
    IN  connect(h2, k.timer.sid, k.timer.cap)

disconnect(h) ==
    LET h1 == [h EXCEPT !.shouldReconnectRef = FALSE,
                        !.reconnectTimeoutRef = NullObject]
        h2 == stopPing(h1)
        h3 == IF h2.wsRef # NullObject
              THEN setWsRef(wsClose(h2), NullObject)
              ELSE h2
    IN  [h3 EXCEPT !.state = InitialState]

\* sendMessage that hands the message to the socket whatever its readyState
sendMessageAlways(h) ==
    Emit(Emit(h, "send"), "return true")

\* sendMessage; effects records the call of wsRef.current.send, the warning
\* logged and the value returned
sendMessage(h) ==
    IF IsOpen(h)
    THEN Emit(Emit(h, "send"), "return true")
    ELSE Emit(Emit(h, "console.warn"), "return false")

\* handleMessage, its part on the hook: the liveness frames and the
\* consumer's onMessage; effects records the type of the frame handled
handleMessageHook(h, type) ==
    LET h1 == CASE type = "heartbeat" ->
                     [h EXCEPT !.state.lastHeartbeat = "now"]
                [] type = "pong" ->
                     [h EXCEPT !.missedPongsRef = 0,
                               !.state.lastHeartbeat = "now",
                               !.state.missedPongs = 0]
                [] OTHER -> h
    IN  Emit(Emit(h1, type), "onMessage")

\* the effect on [autoConnect, sessionId], autoConnect being true exactly when
\* a session id is given: the cleanup of the previous run, then the new run
\* with the connect of the render that saw the change
sessionEffect(h, sid, cap) ==
    LET h1 == disconnect(h)
    IN  IF sid # NoSession
        THEN connect([h1 EXCEPT !.shouldReconnectRef = TRUE], sid, cap)
        ELSE h1

(***************************************************************************)
(* The session store (store/session.store).  An object is a record; the    *)
(* empty object {} and the empty array [] are << >>; a legacy field that   *)
(* is null holds NullObject.  role is presentation only and is left out;   *)
(* an event's id and timestamp (Date.now()) are left out.                  *)
(***************************************************************************)
initialAudio ==
    [amplitude |-> 0, isSpeech |-> FALSE, duration |-> 0, status |-> "idle",
     totalFrames |-> 0, speechFrames |-> 0, error |-> Null]

initialVideo ==
    [faceCount |-> 0, dominantEmotion |-> "neutral", confidence |-> 0,
     totalFrames |-> 0, duration |-> 0, emotionCounts |-> << >>,
     isRecording |-> FALSE]

initialAgent ==
    [finalState |-> Null, confidence |-> << >>, reasoning |-> << >>,
     recommendation |-> ""]

initialSession ==
    [id |-> NoSession, startTime |-> Null, status |-> "idle",
     videoActive |-> FALSE, audioActive |-> FALSE]

initialConnection ==
    [isConnected |-> FALSE, isConnecting |-> FALSE, reconnectCount |-> 0,
     lastError |-> Null]

InitialStore ==
    [session |-> initialSession, audio |-> initialAudio, video |-> initialVideo,
     agent |-> initialAgent, connection |-> initialConnection,
     isLoading |-> FALSE, error |-> Null, events |-> << >>,
     videoStats |-> NullObject, audioMetrics |-> NullObject,
     finalResult |-> NullObject]

\* { ...r, ...p }: every field of p overwrites or is added, the others stay
Merge(r, p) ==
    [k \in DOMAIN r \cup DOMAIN p |-> IF k \in DOMAIN p THEN p[k] ELSE r[k]]

\* x.k || d for a field that may be absent (undefined)
Field(x, k, d) == IF k \in DOMAIN x THEN x[k] ELSE d

\* x.k || d for a string field: the empty string is falsy too
StringField(x, k, d) == IF k \in DOMAIN x /\ x[k] # "" THEN x[k] ELSE d

setSession(s, session) == [s EXCEPT !.session = Merge(@, session)]

\* resetSession without its agent line
resetSessionKeepsAgent(s) ==
    [s EXCEPT !.session = initialSession, !.audio = initialAudio,
              !.video = initialVideo,
              !.events = << >>, !.error = Null, !.videoStats = NullObject,
              !.audioMetrics = NullObject, !.finalResult = NullObject]

resetSession(s) ==
    [s EXCEPT !.session = initialSession, !.audio = initialAudio,
              !.video = initialVideo, !.agent = initialAgent,
              !.events = << >>, !.error = Null, !.videoStats = NullObject,
              !.audioMetrics = NullObject, !.finalResult = NullObject]

setAudioState(s, p) == [s EXCEPT !.audio = Merge(@, p)]
setVideoState(s, p) == [s EXCEPT !.video = Merge(@, p)]
setAgentState(s, p) == [s EXCEPT !.agent = Merge(@, p)]
setConnectionState(s, p) == [s EXCEPT !.connection = Merge(@, p)]
setLoading(s, loading) == [s EXCEPT !.isLoading = loading]
\* a setError that also marks the audio view as failed
setErrorFailsAudio(s, error) ==
    [s EXCEPT !.error = error, !.audio.status = "error", !.audio.error = error]
setError(s, error) == [s EXCEPT !.error = error]

\* events.slice(-49) followed by the new event
KeptEvents == 49
LastEvents(events, n) ==
    IF Len(events) <= n THEN events
    ELSE SubSeq(events, Len(events) - n + 1, Len(events))
\* addEvent without the slice
addEventKeepsAll(s, event) == [s EXCEPT !.events = Append(@, event)]

addEvent(s, event) ==
    [s EXCEPT !.events = Append(LastEvents(@, KeptEvents), event)]

setVideoStats(s, stats) ==
    LET s1 == [s EXCEPT !.videoStats = stats]
    IN  IF stats # NullObject
        THEN [s1 EXCEPT !.video =
                 Merge(@, [faceCount |-> 0,
                           dominantEmotion |-> stats.current_emotion,
                           confidence |-> stats.current_confidence,
                           totalFrames |-> stats.total_frames,
                           duration |-> stats.duration_seconds,
                           emotionCounts |-> stats.counts,
                           isRecording |-> stats.is_recording])]
        ELSE s1

\* setAudioMetrics keeping the longer of the duration held and the one
\* reported
setAudioMetricsKeepsLonger(s, metrics) ==
    LET s1 == [s EXCEPT !.audioMetrics = metrics]
    IN  IF metrics # NullObject
        THEN [s1 EXCEPT !.audio =
                 Merge(@, [amplitude |-> metrics.amplitude,
                           isSpeech |-> metrics.is_speech,
                           duration |-> IF s.audio.duration > metrics.duration
                                        THEN s.audio.duration
                                        ELSE metrics.duration,
                           status |-> "recording"])]
        ELSE s1

\* setAudioMetrics adding the reported duration to the one held
setAudioMetricsAddsDuration(s, metrics) ==
    LET s1 == [s EXCEPT !.audioMetrics = metrics]
    IN  IF metrics # NullObject
        THEN [s1 EXCEPT !.audio =
                 Merge(@, [amplitude |-> metrics.amplitude,
                           isSpeech |-> metrics.is_speech,
                           duration |-> s.audio.duration + metrics.duration,
                           status |-> "recording"])]
        ELSE s1

setAudioMetrics(s, metrics) ==
    LET s1 == [s EXCEPT !.audioMetrics = metrics]
    IN  IF metrics # NullObject
        THEN [s1 EXCEPT !.audio =
                 Merge(@, [amplitude |-> metrics.amplitude,
                           isSpeech |-> metrics.is_speech,
                           duration |-> metrics.duration,
                           status |-> "recording"])]
        ELSE s1

setFinalResult(s, result) ==
    LET s1 == [s EXCEPT !.finalResult = result]
    IN  IF result # NullObject
        THEN [s1 EXCEPT !.agent =
                 Merge(@, [finalState |-> Field(result, "final_state", "undefined"),
                           confidence |-> Field(result, "confidence", << >>),
                           reasoning |-> Field(result, "reasoning", << >>),
                           recommendation |-> StringField(result, "recommendation", "")])]
        ELSE s1

(***************************************************************************)
(* handleMessage and the Dashboard's callbacks, their part on the store.   *)
(***************************************************************************)
UndefinedObject == [undefined |-> TRUE]

\* the switch of handleMessage on a parsed frame [type, data]
handleMessageStore(s, frame) ==
    LET data == frame.data
    IN  CASE frame.type = "video_stats" ->
                 setVideoStats(s,
                     [is_recording |-> TRUE,
                      total_frames |-> Field(data, "total_frames", 0),
                      duration_seconds |-> Field(data, "duration", 0),
                      counts |-> Merge([happy |-> 0, neutral |-> 0, sad |-> 0,
                                        angry |-> 0],
                                       Field(data, "emotion_counts", << >>)),
                      current_emotion |-> StringField(data, "dominant_emotion", "neutral"),
                      current_confidence |-> Field(data, "confidence", 0)])
          [] frame.type = "audio_metrics" ->
                 setAudioMetrics(s,
                     [amplitude |-> Field(data, "amplitude", 0),
                      is_speech |-> Field(data, "is_speech", FALSE),
                      duration |-> Field(data, "duration", 0)])
          [] frame.type = "final_result" -> setFinalResult(s, data)
          [] frame.type = "error" -> setError(s, Field(data, "message", "undefined"))
          [] OTHER -> s

\* an onMessage that takes every frame other than video_stats as the end of
\* the video recording
onMessageStopsVideo(s, frame) ==
    LET data == frame.data
    IN  CASE frame.type = "video_stats" ->
                 setVideoState(s,
                     [faceCount |-> Field(data, "face_count", 0),
                      dominantEmotion |-> StringField(data, "dominant_emotion", "neutral"),
                      confidence |-> Field(data, "confidence", 0),
                      totalFrames |-> Field(data, "total_frames", 0),
                      duration |-> Field(data, "duration", 0),
                      isRecording |-> TRUE])
          [] frame.type = "audio_metrics" ->
                 setAudioMetrics(s,
                     [amplitude |-> Field(data, "amplitude", 0),
                      is_speech |-> Field(data, "is_speech", FALSE),
                      duration |-> Field(data, "duration", 0)])
          [] OTHER -> setVideoState(s, [isRecording |-> FALSE])

\* Dashboard's onMessage
onMessage(s, frame) ==
    LET data == frame.data
    IN  CASE frame.type = "video_stats" ->
                 setVideoState(s,
                     [faceCount |-> Field(data, "face_count", 0),
                      dominantEmotion |-> StringField(data, "dominant_emotion", "neutral"),
                      confidence |-> Field(data, "confidence", 0),
                      totalFrames |-> Field(data, "total_frames", 0),
                      duration |-> Field(data, "duration", 0),
                      isRecording |-> TRUE])
          [] frame.type = "audio_metrics" ->
                 setAudioMetrics(s,
                     [amplitude |-> Field(data, "amplitude", 0),
                      is_speech |-> Field(data, "is_speech", FALSE),
                      duration |-> Field(data, "duration", 0)])
          [] OTHER -> s

\* handleMessage's try throws and its catch logs: JSON.parse fails on a
\* frame that is no JSON (it has no type here), or a case reads a field of
\* the data the frame does not have
Throws(frame) ==
    \/ "type" \notin DOMAIN frame
    \/ /\ "data" \notin DOMAIN frame
       /\ frame.type \in {"video_stats", "audio_metrics", "audio_status", "error"}

\* handleMessage on any inbound frame, its part on the hook
handleMessageRef(h, frame) ==
    IF Throws(frame) THEN Emit(h, "console.error")
    ELSE handleMessageHook(h, frame.type)

\* handleMessage on any inbound frame, its part on the store, Dashboard's
\* onMessage included; a frame without data that does not throw (a
\* final_result, a liveness frame) writes nothing
handleMessage(s, frame) ==
    IF Throws(frame) \/ "data" \notin DOMAIN frame THEN s
    ELSE onMessage(handleMessageStore(s, frame), frame)

\* Dashboard's onConnect and onDisconnect, as the handler that produced h
\* invoked them (Dashboard passes no onError)
dashboardCallbacks(s, h, sid) ==
    LET s1 == IF "onConnect" \in h.effects
              THEN addEvent(setConnectionState(s,
                                [isConnected |-> TRUE, isConnecting |-> FALSE,
                                 lastError |-> Null]),
                            [type |-> "session_start", sessionId |-> sid])
              ELSE s
    IN  IF "onDisconnect" \in h.effects
        THEN setConnectionState(s1, [isConnected |-> FALSE, isConnecting |-> FALSE])
        ELSE s1

\* Dashboard's effect on [isConnected, isConnecting, reconnectCount]
syncConnection(s, old, new) ==
    IF <<old.isConnected, old.isConnecting, old.reconnectCount>>
         # <<new.isConnected, new.isConnecting, new.reconnectCount>>
    THEN setConnectionState(s, [isConnected |-> new.isConnected,
                                isConnecting |-> new.isConnecting,
                                reconnectCount |-> new.reconnectCount])
    ELSE s

\* a handler of the hook under Dashboard: the hook becomes h, the store is
\* s after the handler's own writes, then the callbacks and the sync effect
DashboardStep(h, s, sid) ==
    /\ SetH(h)
    /\ store' = syncConnection(dashboardCallbacks(s, h, sid), state, h.state)
    /\ sessionId' = store'.session.id

\* ErrorToast: timer is the error its pending dismissal timeout was
\* scheduled for, fade the error its pending fade-out timeout was scheduled
\* for, Null when none is pending (visible is presentation only and is
\* left out)
NoToast == [timer |-> Null, fade |-> Null]

\* `if (error)` takes null, undefined and the empty string as no error
Falsy(error) == error \in {Null, "undefined", ""}

\* ErrorToast's effect on [error]: the cleanup of the previous run clears
\* its dismissal timeout, the new run schedules one for an error
toastEffect(t, old, new) ==
    IF new = old THEN t
    ELSE [t EXCEPT !.timer = IF Falsy(new) THEN Null ELSE new]

\* the effect after a handler that has written the store
ErrorToast == toast' = toastEffect(toast, store.error, store'.error)

\* useAudioMetrics' effect on [enabled, sessionId]: the cleanup of the
\* previous run, then the new run: an immediate fetch and the interval
PollRuns(enabled, sid) == enabled /\ sid # NoSession

\* the effect never clearing the interval of its previous run
PollEffectKeepsInterval(enabled, sid) ==
    IF PollRuns(enabled, sid)
    THEN /\ inflight' = inflight + 1
         /\ intervalRef' = TRUE
         /\ intervals' = intervals + 1
    ELSE /\ inflight' = inflight
         /\ intervalRef' = intervalRef
         /\ intervals' = intervals

\* clearInterval of the interval a ref holds, when it holds one
Cleared(n, ref) == IF ref THEN n - 1 ELSE n

\* the polling effect on a change of enabled, sessionId or pollingRate:
\* the cleanup the previous run returned (it returned one when it started
\* the poll), then the new run with the props enabled and sid
PollEffect(enabled, sid) ==
    LET ran == PollRuns(audioEnabled, sessionId)
        ref == IF ran THEN FALSE ELSE intervalRef
        n == IF ran THEN Cleared(intervals, intervalRef) ELSE intervals
    IN  IF PollRuns(enabled, sid)
        THEN /\ inflight' = inflight + 1
             /\ intervalRef' = TRUE
             /\ intervals' = n + 1
        ELSE /\ inflight' = inflight
             /\ intervalRef' = FALSE
             /\ intervals' = Cleared(n, ref)

\* WebRTCVideoStream: enabled is Dashboard's videoEnabled; pollingRef is
\* "null", "live" (the handle of a registered interval) or "cleared" (the
\* handle of an interval that was cleared: the ref is not reset);
\* intervals counts the intervals registered and not cleared
NoStream == [enabled |-> FALSE, pollingRef |-> "null", intervals |-> 0]

StreamRuns(enabled, sid) == enabled /\ sid # NoSession

\* clearInterval(pollingRef.current), when the ref holds a handle
streamClear(v) ==
    IF v.pollingRef = "live"
    THEN [v EXCEPT !.pollingRef = "cleared", !.intervals = @ - 1]
    ELSE v

\* the frame poll's effect without the cleanup of its previous run
streamEffectNoCleanup(v, ran, enabled, sid) ==
    IF StreamRuns(enabled, sid)
    THEN [v EXCEPT !.enabled = enabled, !.pollingRef = "live",
                   !.intervals = @ + 1]
    ELSE [streamClear(v) EXCEPT !.enabled = enabled]

\* the frame poll's effect on a change of enabled or sessionId: the cleanup
\* the previous run returned, then the new run
streamEffect(v, ran, enabled, sid) ==
    LET v1 == IF ran THEN streamClear(v) ELSE v
    IN  IF StreamRuns(enabled, sid)
        THEN [v1 EXCEPT !.enabled = enabled, !.pollingRef = "live",
                        !.intervals = @ + 1]
        ELSE [streamClear(v1) EXCEPT !.enabled = enabled]

\* Dashboard renders the stream with videoEnabled = enabled and session sid
StreamEffect(enabled, sid) ==
    stream' = streamEffect(stream, StreamRuns(stream.enabled, sessionId),
                           enabled, sid)

(***************************************************************************)
(* Actions of the push channel hook.                                       *)
(***************************************************************************)
\* the consumer passes another sessionId
SetSessionId(s) ==
    /\ s # sessionId
    /\ CanConnect(disconnect(H))
    /\ sessionId' = s
    /\ SetH(sessionEffect(H, s, state.reconnectCount))
    /\ UNCHANGED appVars

\* the consumer calls the connect the hook returned
Connect ==
    /\ CanConnect(H)
    /\ SetH(connect(H, sessionId, state.reconnectCount))
    /\ UNCHANGED <<sessionId, appVars>>

\* the consumer calls the disconnect the hook returned
Disconnect ==
    /\ SetH(disconnect(H))
    /\ UNCHANGED <<sessionId, appVars>>

\* the transport's open event
TransportOpen(t) ==
    /\ t.ws.ready = "CONNECTING"
    /\ SetH(onopen(H, t))
    /\ UNCHANGED <<sessionId, appVars>>

\* the transport's close event, after an error event when the connection
\* failed (always so for a socket that never opened)
TransportClose(t, failed) ==
    /\ ~t.ws.opened => failed
    /\ CanClose(H, t)
    /\ SetH(onclose(IF failed THEN onerror(H, t) ELSE H, t))
    /\ UNCHANGED <<sessionId, appVars>>

ReconnectTimer(k) ==
    /\ state.reconnectCount < MaxReconnectCount
    /\ CanConnect(H)
    /\ SetH(reconnectFire(H, k))
    /\ UNCHANGED <<sessionId, appVars>>

PingTick ==
    /\ pingIntervalRef
    /\ SetH(pingTick(H))
    /\ UNCHANGED <<sessionId, appVars>>

\* a pong or heartbeat frame arrives on an open socket
LivenessFrame(t, type) ==
    /\ t.ws.ready = "OPEN"
    /\ SetH(handleMessageHook(H, type))
    /\ UNCHANGED <<sessionId, appVars>>

\* the consumer calls the sendMessage the hook returned
SendMessage ==
    /\ SetH(sendMessage(H))
    /\ UNCHANGED <<sessionId, appVars>>

(***************************************************************************)
(* Actions of the Dashboard: the buttons, the metrics poll, the analysis   *)
(* request and the push channel's events with Dashboard's callbacks.       *)
(***************************************************************************)
\* the payloads the poll endpoint, the push channel and the analysis
\* endpoint deliver in the model
MetricsPayloads ==
    {[amplitude |-> 1, is_speech |-> TRUE, duration |-> 1],
     [amplitude |-> 0, is_speech |-> FALSE, duration |-> 2]}

\* what getLiveMetrics returns when the backend is not recording or holds
\* another session
ZeroMetrics == [amplitude |-> 0, is_speech |-> FALSE, duration |-> 0]

PollPayloads == MetricsPayloads \cup {ZeroMetrics}

FinalResults ==
    {[final_state |-> "SATISFIED", confidence |-> [SATISFIED |-> 80],
      reasoning |-> <<"r1">>, recommendation |-> "keep"],
     [final_state |-> "NEUTRAL", confidence |-> [NEUTRAL |-> 60]],
     [confidence |-> [NEUTRAL |-> 60]]}

\* the data of video_stats frames: a full snapshot, and an earlier one
\* with fewer fields
VideoPayloads ==
    {[face_count |-> 1, dominant_emotion |-> "happy", confidence |-> 90,
      total_frames |-> 2, duration |-> 2, emotion_counts |-> [happy |-> 2]],
     [total_frames |-> 1, emotion_counts |-> [happy |-> 1]]}

AppFrames ==
    {[type |-> "audio_metrics", data |-> m] : m \in MetricsPayloads}
        \cup {[type |-> "final_result", data |-> r] : r \in FinalResults}
        \cup {[type |-> "video_stats", data |-> v] : v \in VideoPayloads}

\* Start Session: startSession(), setVideoEnabled(true) and
\* setAudioEnabled(true), then the effects of the render: the push channel
\* connects, the metrics poll and the frame poll start
HandleStart(sid) ==
    /\ store.session.status = "idle"
    /\ ~store.isLoading
    /\ inflight < MaxInFlight
    /\ CanConnect(disconnect(H))
    /\ LET s1 == setSession(store, [id |-> sid, startTime |-> "now",
                                    status |-> "recording"])
       IN  /\ DashboardStep(IF sid # sessionId
                            THEN sessionEffect(H, sid, state.reconnectCount)
                            ELSE H, s1, sid)
           /\ audioEnabled' = TRUE
           /\ PollEffect(TRUE, sid)
           /\ StreamEffect(TRUE, sid)
    /\ UNCHANGED <<analyzing, toast>>

\* Stop Recording: setVideoEnabled(false), setAudioEnabled(false) and
\* endSession(); the cleanups of the two polls run
HandleStop ==
    /\ store.session.status = "recording"
    /\ ~store.isLoading
    /\ store' = setSession(store, [status |-> "processing"])
    /\ audioEnabled' = FALSE
    /\ PollEffect(FALSE, sessionId)
    /\ StreamEffect(FALSE, sessionId)
    /\ UNCHANGED <<hookVars, analyzing, toast>>

\* Analyze Session: analyzeSession() up to its await
HandleAnalyze ==
    /\ store.session.status = "processing"
    /\ ~store.isLoading
    /\ IF store.session.id = NoSession
       THEN store' = setError(store, "No active session") /\ UNCHANGED analyzing
       ELSE store' = setError(setLoading(store, TRUE), Null) /\ analyzing' = TRUE
    /\ ErrorToast
    /\ UNCHANGED <<hookVars, audioEnabled, intervalRef, intervals, inflight, stream>>

\* resultApi.analyze resolves: the rest of analyzeSession's try, and finally
AnalyzeDone(result) ==
    /\ analyzing
    /\ LET s1 == setFinalResult(store, result)
           s2 == setAgentState(s1,
                     [finalState |-> Field(result, "final_state", "undefined"),
                      confidence |-> Field(result, "confidence", UndefinedObject),
                      reasoning |-> Field(result, "reasoning", UndefinedObject),
                      recommendation |-> Field(result, "recommendation", "undefined")])
           s3 == setSession(s2, [status |-> "complete"])
       IN  store' = setLoading(s3, FALSE)
    /\ analyzing' = FALSE
    /\ UNCHANGED <<hookVars, audioEnabled, intervalRef, intervals, inflight, toast, stream>>

\* resultApi.analyze rejects: the catch, without the finally
AnalyzeFailedKeepsLoading ==
    /\ analyzing
    /\ store' = setError(store, "Analysis failed")
    /\ analyzing' = FALSE
    /\ ErrorToast
    /\ UNCHANGED <<hookVars, audioEnabled, intervalRef, intervals, inflight, stream>>

\* resultApi.analyze rejects: catch, and finally
AnalyzeFailed ==
    /\ analyzing
    /\ store' = setLoading(setError(store, "Analysis failed"), FALSE)
    /\ analyzing' = FALSE
    /\ ErrorToast
    /\ UNCHANGED <<hookVars, audioEnabled, intervalRef, intervals, inflight, stream>>

\* New Session: setVideoEnabled(false), setAudioEnabled(false) and
\* resetSession(); the push channel's cleanup runs, as the session id is
\* empty now
HandleReset ==
    /\ store.session.status = "complete"
    /\ LET s1 == resetSession(store)
       IN  DashboardStep(IF sessionId # NoSession
                         THEN sessionEffect(H, NoSession, state.reconnectCount)
                         ELSE H, s1, NoSession)
    /\ audioEnabled' = FALSE
    /\ PollEffect(FALSE, NoSession)
    /\ StreamEffect(FALSE, NoSession)
    /\ ErrorToast
    /\ UNCHANGED analyzing

\* the poll interval's callback: fetchMetrics() up to its await
PollTick ==
    /\ intervals > 0
    /\ inflight < MaxInFlight
    /\ inflight' = inflight + 1
    /\ UNCHANGED <<hookVars, store, audioEnabled, intervalRef, intervals, analyzing, toast, stream>>

\* getLiveMetrics resolves: the rest of fetchMetrics
FetchDone(metrics) ==
    /\ inflight > 0
    /\ inflight' = inflight - 1
    /\ store' = setAudioMetrics(store, metrics)
    /\ UNCHANGED <<hookVars, audioEnabled, intervalRef, intervals, analyzing, toast, stream>>

\* a catch of fetchMetrics that gives the poll up
FetchFailedStopsPoll ==
    /\ inflight > 0
    /\ inflight' = inflight - 1
    /\ intervalRef' = FALSE
    /\ intervals' = Cleared(intervals, intervalRef)
    /\ UNCHANGED <<hookVars, store, audioEnabled, analyzing, toast, stream>>

\* getLiveMetrics rejects: the catch of fetchMetrics
FetchFailed ==
    /\ inflight > 0
    /\ inflight' = inflight - 1
    /\ UNCHANGED <<hookVars, store, audioEnabled, intervalRef, intervals, analyzing, toast, stream>>

DashboardOpen(t) ==
    /\ t.ws.ready = "CONNECTING"
    /\ DashboardStep(onopen(H, t), store, t.ws.sid)
    /\ UNCHANGED <<audioEnabled, intervalRef, intervals, inflight, analyzing, toast, stream>>

\* the close event of a socket the hook has closed
DashboardClose(t, failed) ==
    /\ t.ws.ready = "CLOSING"
    /\ ~t.ws.opened => failed
    /\ CanClose(H, t)
    /\ DashboardStep(onclose(IF failed THEN onerror(H, t) ELSE H, t), store,
                     t.ws.sid)
    /\ UNCHANGED <<audioEnabled, intervalRef, intervals, inflight, analyzing, toast, stream>>

DashboardReconnectTimer(k) ==
    /\ state.reconnectCount < MaxReconnectCount
    /\ CanConnect(H)
    /\ DashboardStep(reconnectFire(H, k), store, k.timer.sid)
    /\ UNCHANGED <<audioEnabled, intervalRef, intervals, inflight, analyzing, toast, stream>>

\* a frame arrives on an open socket: handleMessage, then onMessage
DashboardFrame(t, frame) ==
    /\ t.ws.ready = "OPEN"
    /\ DashboardStep(handleMessageRef(H, frame), handleMessage(store, frame),
                     t.ws.sid)
    /\ ErrorToast
    /\ UNCHANGED <<audioEnabled, intervalRef, intervals, inflight, analyzing, stream>>

\* the dismissal timeout fires: setVisible(false) and the fade-out timeout;
\* duration (5000 ms) being longer than the fade-out (300 ms), a fade-out
\* timeout that is pending fires before a dismissal timeout scheduled after
\* it
ToastTimer ==
    /\ toast.timer # Null
    /\ toast.fade = Null
    /\ toast' = [timer |-> Null, fade |-> toast.timer]
    /\ UNCHANGED <<hookVars, store, audioEnabled, intervalRef, intervals,
                   inflight, analyzing, stream>>

\* the fade-out timeout fires: setError(null)
ToastFade ==
    /\ toast.fade # Null
    /\ store' = setError(store, Null)
    /\ toast' = [toastEffect(toast, store.error, Null) EXCEPT !.fade = Null]
    /\ UNCHANGED <<hookVars, audioEnabled, intervalRef, intervals, inflight, analyzing, stream>>

\* a click on the toast's close button, rendered while there is an error
ToastDismiss ==
    /\ ~Falsy(store.error)
    /\ store' = setError(store, Null)
    /\ ErrorToast
    /\ UNCHANGED <<hookVars, audioEnabled, intervalRef, intervals, inflight, analyzing, stream>>

Init ==
    /\ sessionId = NoSession
    /\ state = InitialState
    /\ wsRef = NullObject
    /\ pingIntervalRef = FALSE
    /\ reconnectTimeoutRef = NullObject
    /\ shouldReconnectRef = TRUE
    /\ missedPongsRef = 0
    /\ sockets = EmptyBag
    /\ timers = EmptyBag
    /\ effects = {}
    /\ store = InitialStore
    /\ audioEnabled = FALSE
    /\ intervalRef = FALSE
    /\ intervals = 0
    /\ inflight = 0
    /\ analyzing = FALSE
    /\ toast = NoToast
    /\ stream = NoStream

(***************************************************************************)
(* Spec: the connection manager under a consumer that changes the session  *)
(* and calls connect and disconnect, over a transport that may open, fail  *)
(* and close at any time.                                                  *)
(***************************************************************************)
Next ==
    \/ \E s \in SessionIds \cup {NoSession} : SetSessionId(s)
    \/ Connect
    \/ Disconnect
    \/ \E t \in Sockets : TransportOpen(t)
    \/ \E t \in Sockets, failed \in BOOLEAN : TransportClose(t, failed)
    \/ \E k \in Timers : ReconnectTimer(k)

Spec == Init /\ [][Next]_vars

(***************************************************************************)
(* SpecHeartbeat: the connection manager with its heartbeat monitor, the   *)
(* session changing and the transport opening, failing, closing and        *)
(* delivering liveness frames at any time.                                 *)
(***************************************************************************)
NextHeartbeat ==
    \/ \E s \in SessionIds \cup {NoSession} : SetSessionId(s)
    \/ \E t \in Sockets : TransportOpen(t)
    \/ \E t \in Sockets, failed \in BOOLEAN : TransportClose(t, failed)
    \/ \E k \in Timers : ReconnectTimer(k)
    \/ PingTick
    \/ \E t \in Sockets, type \in {"pong", "heartbeat"} : LivenessFrame(t, type)

SpecHeartbeat == Init /\ [][NextHeartbeat]_vars

(***************************************************************************)
(* SpecSend: the connection manager under a consumer that sends commands   *)
(* at any time, the session changing and the transport opening, failing    *)
(* and closing, with reconnection.                                         *)
(***************************************************************************)
NextSend ==
    \/ \E s \in SessionIds \cup {NoSession} : SetSessionId(s)
    \/ \E t \in Sockets : TransportOpen(t)
    \/ \E t \in Sockets, failed \in BOOLEAN : TransportClose(t, failed)
    \/ \E k \in Timers : ReconnectTimer(k)
    \/ SendMessage

SpecSend == Init /\ [][NextSend]_vars

(***************************************************************************)
(* SpecApp: the Dashboard page: the store, the session buttons, the        *)
(* metrics poll, the analysis request, the error toast and the push        *)
(* channel over a transport that opens, delivers frames and closes when    *)
(* the hook closes it.                                                     *)
(***************************************************************************)
NextApp ==
    \/ \E sid \in SessionIds : HandleStart(sid)
    \/ HandleStop
    \/ HandleAnalyze
    \/ \E r \in FinalResults : AnalyzeDone(r)
    \/ AnalyzeFailed
    \/ HandleReset
    \/ PollTick
    \/ \E m \in PollPayloads : FetchDone(m)
    \/ FetchFailed
    \/ \E t \in Sockets : DashboardOpen(t)
    \/ \E t \in Sockets, failed \in BOOLEAN : DashboardClose(t, failed)
    \/ \E k \in Timers : DashboardReconnectTimer(k)
    \/ \E t \in Sockets, f \in AppFrames : DashboardFrame(t, f)
    \/ ToastTimer
    \/ ToastFade
    \/ ToastDismiss

SpecApp == Init /\ [][NextApp]_vars

(***************************************************************************)
(* SpecLive: the Dashboard through one session, from Start Session to Stop *)
(* Recording and after, the metrics poll beside a push channel whose       *)
(* transport may open, fail and close at any time, with the heartbeat      *)
(* monitor and the reconnect timers.                                       *)
(***************************************************************************)
\* connections the timeline records a session_start for, at most
MaxOpens == 2

\* pong and heartbeat frames
LivenessFrames ==
    {[type |-> "pong", data |-> << >>], [type |-> "heartbeat", data |-> << >>]}

LiveOpen(t) ==
    /\ Len(store.events) < MaxOpens
    /\ DashboardOpen(t)

\* the close event of a socket, after an error event when the connection
\* failed, that pauses the metrics poll
DashboardDropPausesPoll(t, failed) ==
    /\ ~t.ws.opened => failed
    /\ CanClose(H, t)
    /\ DashboardStep(onclose(IF failed THEN onerror(H, t) ELSE H, t), store,
                     t.ws.sid)
    /\ intervalRef' = FALSE
    /\ intervals' = Cleared(intervals, intervalRef)
    /\ UNCHANGED <<audioEnabled, inflight, analyzing, toast, stream>>

\* the close event of a socket at any time, after an error event when the
\* connection failed (always so for a socket that never opened)
DashboardDrop(t, failed) ==
    /\ ~t.ws.opened => failed
    /\ CanClose(H, t)
    /\ DashboardStep(onclose(IF failed THEN onerror(H, t) ELSE H, t), store,
                     t.ws.sid)
    /\ UNCHANGED <<audioEnabled, intervalRef, intervals, inflight, analyzing, toast, stream>>

\* the heartbeat interval's callback under Dashboard
DashboardPingTick ==
    /\ pingIntervalRef
    /\ DashboardStep(pingTick(H), store, sessionId)
    /\ UNCHANGED <<audioEnabled, intervalRef, intervals, inflight, analyzing, toast, stream>>

NextLive ==
    \/ \E sid \in SessionIds : HandleStart(sid)
    \/ HandleStop
    \/ PollTick
    \/ \E m \in MetricsPayloads : FetchDone(m)
    \/ FetchFailed
    \/ \E t \in Sockets : LiveOpen(t)
    \/ \E t \in Sockets, failed \in BOOLEAN : DashboardDrop(t, failed)
    \/ \E k \in Timers : DashboardReconnectTimer(k)
    \/ DashboardPingTick
    \/ \E t \in Sockets, f \in LivenessFrames : DashboardFrame(t, f)

SpecLive == Init /\ [][NextLive]_vars

(***************************************************************************)
(* SpecFrames: the Dashboard in a session whose push channel delivers      *)
(* frames of every kind, well formed or not, with the heartbeat ticking    *)
(* and the transport closing and reconnecting at any time.                 *)
(***************************************************************************)
\* the types handleMessage or onMessage decode into a view
ViewTypes == {"video_stats", "audio_metrics", "final_result"}

\* the types that carry no view field, and one that WSEventType does not list
NoViewTypes ==
    {"heartbeat", "pong", "connected", "disconnected", "audio_status",
     "session_state", "session_completed", "telemetry"}

NoViewFrames == {[type |-> ty, data |-> [status |-> "ok"]] : ty \in NoViewTypes}

ErrorFrames == {[type |-> "error", data |-> [message |-> "camera lost"]]}

\* one well-formed frame for each view
ViewFrames ==
    {[type |-> "audio_metrics",
      data |-> [amplitude |-> 1, is_speech |-> TRUE, duration |-> 1]],
     [type |-> "video_stats",
      data |-> [face_count |-> 1, dominant_emotion |-> "happy", confidence |-> 90,
                total_frames |-> 2, duration |-> 2, emotion_counts |-> [happy |-> 2]]],
     [type |-> "final_result",
      data |-> [final_state |-> "NEUTRAL", confidence |-> [NEUTRAL |-> 60]]]}

\* frames that are not what the protocol sends: a text that is no JSON, a
\* frame without data, a frame whose data is not an object or is an object
\* with none of the fields of its type (every field reads undefined)
MalformedFrames ==
    {[raw |-> "{"],
     [type |-> "video_stats"],
     [type |-> "error"],
     [type |-> "video_stats", data |-> << >>],
     [type |-> "audio_metrics", data |-> << >>]}

NextFrames ==
    \/ \E sid \in SessionIds : HandleStart(sid)
    \/ HandleStop
    \/ \E t \in Sockets : LiveOpen(t)
    \/ \E t \in Sockets, failed \in BOOLEAN : DashboardDrop(t, failed)
    \/ \E k \in Timers : DashboardReconnectTimer(k)
    \/ DashboardPingTick
    \/ \E t \in Sockets,
          f \in ViewFrames \cup NoViewFrames \cup ErrorFrames \cup MalformedFrames :
           DashboardFrame(t, f)

SpecFrames == Init /\ [][NextFrames]_vars

(***************************************************************************)
(* SpecToast: the Dashboard in a session whose push channel delivers error *)
(* frames, with the error toast and its timeouts.                          *)
(***************************************************************************)
ToastFrames ==
    {[type |-> "error", data |-> [message |-> m]] : m \in {"camera lost", "mic lost"}}

NextToast ==
    \/ \E sid \in SessionIds : HandleStart(sid)
    \/ HandleStop
    \/ \E t \in Sockets : LiveOpen(t)
    \/ \E t \in Sockets, failed \in BOOLEAN : DashboardDrop(t, failed)
    \/ \E k \in Timers : DashboardReconnectTimer(k)
    \/ \E t \in Sockets, f \in ToastFrames : DashboardFrame(t, f)
    \/ ToastTimer
    \/ ToastFade
    \/ ToastDismiss

SpecToast == Init /\ [][NextToast]_vars

(***************************************************************************)
(* SpecPoll: useAudioMetrics on its own, rendered by any parent that       *)
(* changes its enabled and sessionId props in any order, beside the push   *)
(* channel's handleMessage writing to the same store.                      *)
(***************************************************************************)
\* a render with other props: the effect's cleanup, then its new run
PollProps(enabled, sid) ==
    /\ <<enabled, sid>> # <<audioEnabled, sessionId>>
    /\ PollRuns(enabled, sid) => inflight < MaxInFlight
    /\ audioEnabled' = enabled
    /\ sessionId' = sid
    /\ PollEffect(enabled, sid)
    /\ UNCHANGED <<state, wsRef, pingIntervalRef, reconnectTimeoutRef,
                   shouldReconnectRef, missedPongsRef, sockets, timers,
                   effects, store, analyzing, toast, stream>>

\* a frame of the push channel is handled: handleMessage, then onMessage
PushFrame(frame) ==
    /\ store' = onMessage(handleMessageStore(store, frame), frame)
    /\ effects' = effects \cup {frame.type}
    /\ UNCHANGED <<sessionId, state, wsRef, pingIntervalRef,
                   reconnectTimeoutRef, shouldReconnectRef, missedPongsRef,
                   sockets, timers, audioEnabled, intervalRef, intervals, inflight,
                   analyzing, toast, stream>>

NextPoll ==
    \/ \E enabled \in BOOLEAN, sid \in SessionIds \cup {NoSession} :
           PollProps(enabled, sid)
    \/ PollTick
    \/ \E m \in PollPayloads : FetchDone(m)
    \/ FetchFailed
    \/ \E f \in AppFrames : PushFrame(f)

SpecPoll == Init /\ [][NextPoll]_vars

(***************************************************************************)
(* SpecStore: the session store on its own, its operations called in any   *)
(* order by any component.  Time is read off the timeline: an event is     *)
(* stamped one later than the newest event held.                           *)
(***************************************************************************)
\* events added to the timeline since the last reset, at most
MaxEvents == 60

\* the partial updates the views are given in the model
AudioPartials == {[amplitude |-> 1], [duration |-> 2, status |-> "recording"]}
VideoPartials == {[faceCount |-> 1], [totalFrames |-> 3, isRecording |-> TRUE]}
AgentPartials == {[finalState |-> "SATISFIED"], [recommendation |-> "keep"]}
ConnectionPartials == {[isConnected |-> TRUE], [lastError |-> "refused"]}

\* Date.now() at the call of addEvent
Now(s) ==
    IF s.events = << >> THEN 1 ELSE s.events[Len(s.events)].timestamp + 1

\* what a call of a store operation leaves alone
notStore == <<hookVars, audioEnabled, intervalRef, intervals, inflight, analyzing, toast, stream>>

StoreSetSession(sid) ==
    /\ store' = setSession(store, [id |-> sid, startTime |-> "now",
                                   status |-> "recording"])
    /\ UNCHANGED notStore

StoreSetAudioState(p) ==
    /\ store' = setAudioState(store, p)
    /\ UNCHANGED notStore

StoreSetAudioMetrics(m) ==
    /\ store' = setAudioMetrics(store, m)
    /\ UNCHANGED notStore

StoreSetVideoState(p) ==
    /\ store' = setVideoState(store, p)
    /\ UNCHANGED notStore

StoreSetAgentState(p) ==
    /\ store' = setAgentState(store, p)
    /\ UNCHANGED notStore

StoreSetConnectionState(p) ==
    /\ store' = setConnectionState(store, p)
    /\ UNCHANGED notStore

StoreAddEvent ==
    /\ Now(store) <= MaxEvents
    /\ store' = addEvent(store, [type |-> "session_start",
                                 timestamp |-> Now(store)])
    /\ UNCHANGED notStore

\* the call is recorded, for the states after a reset to be told apart
StoreResetSession ==
    /\ store' = resetSession(store)
    /\ effects' = effects \cup {"resetSession"}
    /\ UNCHANGED <<sessionId, state, wsRef, pingIntervalRef,
                   reconnectTimeoutRef, shouldReconnectRef, missedPongsRef,
                   sockets, timers, audioEnabled, intervalRef, intervals, inflight,
                   analyzing, toast, stream>>

NextStore ==
    \/ \E sid \in SessionIds : StoreSetSession(sid)
    \/ \E p \in AudioPartials : StoreSetAudioState(p)
    \/ \E m \in PollPayloads \cup {NullObject} : StoreSetAudioMetrics(m)
    \/ \E p \in VideoPartials : StoreSetVideoState(p)
    \/ \E p \in AgentPartials : StoreSetAgentState(p)
    \/ \E p \in ConnectionPartials : StoreSetConnectionState(p)
    \/ StoreAddEvent
    \/ StoreResetSession

SpecStore == Init /\ [][NextStore]_vars

(***************************************************************************)
(* Claims about the connection manager and the heartbeat monitor.          *)
(***************************************************************************)
\* the transport attempts for session s: the sockets connecting or open
IsAttempt(ws, s) == ws.ready \in {"CONNECTING", "OPEN"} /\ ws.sid = s

NumAttempts(s) ==
    BagCardinality([ws \in {x \in BagToSet(sockets) : IsAttempt(x, s)}
                       |-> CopiesIn(ws, sockets)])
        + (IF wsRef # NullObject /\ IsAttempt(wsRef, s) THEN 1 ELSE 0)

\* disconnect() has returned and connect() has not run since: only
\* disconnect clears wsRef and shouldReconnectRef, and every connect that
\* opens a socket sets wsRef
Disconnected == wsRef = NullObject /\ ~shouldReconnectRef

Callbacks == {"onConnect", "onDisconnect", "onError"}

\* C3: connect() is idempotent while connected or connecting to the same
\* session, so at most one transport attempt (a socket connecting or open)
\* exists per session at any time.
C3_OneTransportPerSession ==
    \A s \in SessionIds : NumAttempts(s) <= 1

\* C4: after disconnect() has returned (and until connect() is called
\* again) no handler changes the hook's connection state or invokes the
\* consumer's onConnect, onDisconnect or onError.
C4_NoCallbackAfterDisconnect ==
    [][(Disconnected /\ Disconnected')
          => (effects' \cap Callbacks = {} /\ state' = state)]_vars

\* C5: disconnect() cancels every pending reconnect timer and disables
\* auto-reconnection: after disconnect() (and until connect() is called
\* again) no reconnect timer is pending, so that no new transport is opened.
C5_DisconnectCancelsReconnect ==
    Disconnected => Timers = {}

\* C6: no more than reconnectAttempts consecutive reconnect attempts are
\* made without an intervening successful open: the attempt counter, which
\* the reconnect timer increments and the open event resets, never passes
\* reconnectAttempts.
C6_ReconnectAttemptsBounded ==
    state.reconnectCount <= reconnectAttempts

\* C7: once the missed-response count has passed the threshold while
\* connected, the manager leaves connected before another probe interval
\* elapses, whether or not the transport has reported its closure.
C7_DeadWithinOneInterval ==
    ~(state.isConnected /\ missedPongsRef > MAX_MISSED_PONGS
        /\ "idleTick" \in effects)

\* C8: every liveness response, a pong frame or a heartbeat frame, resets
\* the missed-response counter to 0 and records the response timestamp.
C8_LivenessResetsMissed ==
    [][(effects' \cap {"pong", "heartbeat"} # {})
          => (missedPongsRef' = 0 /\ state'.lastHeartbeat = "now")]_vars

\* C9: the heartbeat timer is registered only while the manager is
\* connected, and in every state where the manager is not connected no
\* probe is sent; a probe goes to an open current transport only.
C9_HeartbeatOnlyWhileConnected ==
    /\ ~state.isConnected => (~pingIntervalRef /\ "ping" \notin effects)
    /\ "ping" \in effects => IsOpen(H)

\* the manager has left connected by a close event after probes were sent
C9_Witness ==
    /\ ~state.isConnected
    /\ "onDisconnect" \in effects
    /\ state.missedPongs > 0

(***************************************************************************)
(* Claims about the store under its producers.                             *)
(***************************************************************************)
\* counts[k] || 0
Count(counts, k) == IF k \in DOMAIN counts THEN counts[k] ELSE 0

\* C1: stale-token rejection: after a session reset, an update dispatched
\* before the reset has no effect: while no session is active (from the
\* reset to the next start) the audio, video and agent views are the ones
\* the reset left, the initial ones.
C1_StaleUpdateRejected ==
    store.session.id = NoSession =>
        /\ store.audio = initialAudio
        /\ store.video = initialVideo
        /\ store.agent = initialAgent

\* C2: cancellation: once the poll coordinator has been disabled (its
\* effect's cleanup has run), the completion of a fetch that was in flight
\* does not mutate the store.
C2_NoMutationAfterDisable ==
    [][(~intervalRef /\ inflight' < inflight) => store' = store]_vars

\* the values of AgentState.finalState other than null
Verdicts == {"SATISFIED", "NEUTRAL", "DISSATISFIED"}

\* a step that leaves the session, the views and the timeline as
\* resetSession does
IsReset ==
    /\ store'.session = initialSession
    /\ store'.audio = initialAudio
    /\ store'.video = initialVideo
    /\ store'.agent = initialAgent
    /\ store'.events = << >>

\* C10: terminal verdict: once agent.finalState is a verdict, no update
\* replaces it by a different verdict; only a reset (which makes it null)
\* ends it.
C10_TerminalVerdict ==
    [][(store.agent.finalState \in Verdicts /\ store'.agent.finalState \in Verdicts)
          => store'.agent.finalState = store.agent.finalState]_vars

\* C11: once agent.finalState is a verdict, it stops being one (becomes
\* null or absent) only by a session reset, whatever agent updates arrive,
\* final_result frames without final_state included.
C11_VerdictNeverReverts ==
    [][(store.agent.finalState \in Verdicts /\ store'.agent.finalState \notin Verdicts)
          => IsReset]_vars

\* C12: video monotonicity: in every step that is not a session reset,
\* video.totalFrames and every value of video.emotionCounts do not
\* decrease.
C12_VideoMonotonic ==
    [][~IsReset =>
          /\ store'.video.totalFrames >= store.video.totalFrames
          /\ \A k \in DOMAIN store.video.emotionCounts :
                 Count(store'.video.emotionCounts, k) >= store.video.emotionCounts[k]]_vars

\* C13: audio duration monotonicity: in every step that is not a session
\* reset, whether a push frame or a poll response is applied,
\* audio.duration does not decrease.
C13_AudioDurationMonotonic ==
    [][~IsReset => store'.audio.duration >= store.audio.duration]_vars

\* new is old with exactly the fields of p overwritten
MergesFields(old, new, p) ==
    /\ DOMAIN new = DOMAIN old \cup DOMAIN p
    /\ \A k \in DOMAIN new : new[k] = IF k \in DOMAIN p THEN p[k] ELSE old[k]

\* the field of the view that a field of a frame's data is decoded into
VideoField ==
    [face_count |-> "faceCount", dominant_emotion |-> "dominantEmotion",
     confidence |-> "confidence", total_frames |-> "totalFrames",
     duration |-> "duration", emotion_counts |-> "emotionCounts"]

AudioField ==
    [amplitude |-> "amplitude", is_speech |-> "isSpeech", duration |-> "duration"]

\* the fields of the view whose frame field is absent from data are the same
\* in old and new
KeepsAbsent(old, new, data, fields) ==
    \A k \in DOMAIN fields : k \notin DOMAIN data => new[fields[k]] = old[fields[k]]

\* the store after a frame has been handled: handleMessage, then onMessage
Decoded(frame) == onMessage(handleMessageStore(store, frame), frame)

\* C14: field-level merge: in every state, each of setAudioState,
\* setVideoState, setAgentState and setConnectionState overwrites exactly
\* the fields of its partial, and the decoding of a video_stats or
\* audio_metrics frame leaves every view field whose frame field is absent
\* as it was.
C14_FieldLevelMerge ==
    /\ \A p \in AudioPartials :
           MergesFields(store.audio, setAudioState(store, p).audio, p)
    /\ \A p \in VideoPartials :
           MergesFields(store.video, setVideoState(store, p).video, p)
    /\ \A p \in AgentPartials :
           MergesFields(store.agent, setAgentState(store, p).agent, p)
    /\ \A p \in ConnectionPartials :
           MergesFields(store.connection, setConnectionState(store, p).connection, p)
    /\ \A f \in AppFrames :
           /\ f.type = "video_stats" =>
                  KeepsAbsent(store.video, Decoded(f).video, f.data, VideoField)
           /\ f.type = "audio_metrics" =>
                  KeepsAbsent(store.audio, Decoded(f).audio, f.data, AudioField)

\* C15: merge idempotence: in every state of the store, applying an audio
\* partial (by setAudioState) or an audio metrics payload (by
\* setAudioMetrics) twice in succession gives the same store as applying it
\* once.
C15_MergeIdempotent ==
    /\ \A p \in AudioPartials :
           setAudioState(setAudioState(store, p), p) = setAudioState(store, p)
    /\ \A m \in PollPayloads \cup {NullObject} :
           setAudioMetrics(setAudioMetrics(store, m), m) = setAudioMetrics(store, m)

\* a metrics payload has been applied over a view written by setAudioState,
\* and applying it again leaves the store as it is
C15_Witness ==
    /\ store.audioMetrics \in MetricsPayloads
    /\ store.audio.amplitude # store.audioMetrics.amplitude
    /\ setAudioMetrics(store, store.audioMetrics) # store
    /\ setAudioMetrics(setAudioMetrics(store, store.audioMetrics), store.audioMetrics)
           = setAudioMetrics(store, store.audioMetrics)

\* the audio view shows the values of the metrics update m
ShowsMetrics(audio, m) ==
    /\ audio.amplitude = m.amplitude
    /\ audio.isSpeech = m.is_speech
    /\ audio.duration = m.duration

\* C16: last writer wins per field: in every state, whenever an
\* audio_metrics push frame and a poll response are applied one after the
\* other, in either order, the audio view shows the values of the one
\* applied last, and the video view, which only the push channel writes,
\* keeps the values of the last video_stats frame through a poll response;
\* and the audio view always shows the metrics update applied last.
C16_LastWriterWins ==
    /\ store.audioMetrics # NullObject => ShowsMetrics(store.audio, store.audioMetrics)
    /\ \A push \in MetricsPayloads, poll \in PollPayloads :
           LET frame == [type |-> "audio_metrics", data |-> push]
               pushed == Decoded(frame)
               polled == setAudioMetrics(store, poll)
           IN  /\ ShowsMetrics(setAudioMetrics(pushed, poll).audio, poll)
               /\ ShowsMetrics(
                      onMessage(handleMessageStore(polled, frame), frame).audio,
                      push)
    /\ \A f \in AppFrames, poll \in PollPayloads :
           f.type = "video_stats" =>
               setAudioMetrics(Decoded(f), poll).video = Decoded(f).video

\* the push channel has delivered an audio_metrics frame with a duration,
\* a video_stats frame has been decoded, and the poll response applied
\* after them, the zeros of a backend that is not recording, is what the
\* audio view shows
C16_Witness ==
    /\ "audio_metrics" \in effects
    /\ store.video.totalFrames > 0
    /\ store.audioMetrics = ZeroMetrics
    /\ ShowsMetrics(store.audio, ZeroMetrics)

\* C19: poll schedule: the interval is registered exactly while the poll
\* is enabled with a session id; the step that registers it issues one
\* fetch; a fetch is issued only by a step after which the interval is
\* registered, so none is issued once the poll is disabled; and the step
\* that ends a fetch never registers the interval.
C19_PollOnlyWhileEnabled ==
    /\ [](intervalRef <=> PollRuns(audioEnabled, sessionId))
    /\ [][/\ (~intervalRef /\ intervalRef') => inflight' = inflight + 1
          /\ inflight' > inflight => intervalRef'
          /\ inflight' < inflight => (~intervalRef => ~intervalRef')]_vars

\* the poll was disabled, its session id still given, while a fetch was in
\* flight
C19_Witness ==
    /\ ~audioEnabled
    /\ sessionId # NoSession
    /\ ~intervalRef
    /\ inflight > 0

\* C20: a failed poll fetch is skipped: the step of a rejected fetch
\* changes nothing but the count of fetches in flight (the store, the
\* interval and the rest of the Dashboard are as they were), and if the
\* interval is registered its next tick can fetch.
C20_FailedFetchSkipped ==
    [][FetchFailed =>
          /\ UNCHANGED <<hookVars, store, audioEnabled, intervalRef, intervals, analyzing, toast, stream>>
          /\ intervalRef => (intervalRef' /\ inflight' < MaxInFlight)]_vars

\* every fetch of the running poll so far has failed: nothing was stored,
\* no fetch is in flight, and the interval is still registered
C20_Witness ==
    /\ audioEnabled
    /\ sessionId # NoSession
    /\ store.audioMetrics = NullObject
    /\ inflight = 0
    /\ intervalRef

\* C17: resetSession is one atomic step: the step that takes the session
\* back to its initial value leaves the audio, video and agent views and
\* the timeline at their initial values too, and the connection state as
\* it was.
C17_ResetAtomic ==
    [][(store.session # initialSession /\ store'.session = initialSession)
          => (IsReset /\ store'.connection = store.connection)]_vars

\* resetSession was called: the session, the views and the timeline are
\* initial, the legacy metrics are cleared too, the connection state is not
\* the initial one
C17_Witness ==
    /\ "resetSession" \in effects
    /\ store.session = initialSession
    /\ store.audio = initialAudio
    /\ store.video = initialVideo
    /\ store.agent = initialAgent
    /\ store.events = << >>
    /\ store.audioMetrics = NullObject
    /\ store.connection.isConnected
    /\ store.connection.lastError = "refused"

\* C18: timeline bound: the timeline holds at most 50 events, and they are
\* the newest ones in insertion order: with n events added since the last
\* reset, it holds exactly the events max(1, n - 49) .. n.
C18_TimelineBound ==
    LET events == store.events
        n == Now(store) - 1
    IN  /\ Len(events) <= KeptEvents + 1
        /\ Len(events) = IF n <= KeptEvents + 1 THEN n ELSE KeptEvents + 1
        /\ \A i \in 1..Len(events) :
               events[i].timestamp = n - Len(events) + i

\* MaxEvents events were added: the timeline holds the last 50 of them
C18_Witness ==
    /\ Len(store.events) = KeptEvents + 1
    /\ store.events[1].timestamp = MaxEvents - KeptEvents
    /\ store.events[KeptEvents + 1].timestamp = MaxEvents

(***************************************************************************)
(* Claims about the Dashboard during a session, the frames and the error   *)
(* slot.                                                                   *)
(***************************************************************************)
\* the refs and the React state of the push channel hook
pushChannel ==
    <<state, wsRef, pingIntervalRef, reconnectTimeoutRef, shouldReconnectRef,
      missedPongsRef, sockets, timers>>

\* C21: polling runs regardless of push-channel health: while the poll is
\* enabled with a session id its interval is registered, whatever the state
\* of the push channel, and a step that changes the push channel (an open,
\* an error and close, a heartbeat tick that closes, a reconnect) neither
\* clears the interval nor registers it anew with its immediate fetch.
C21_PollRegardlessOfPush ==
    /\ [](PollRuns(audioEnabled, sessionId) => intervalRef)
    /\ [][(PollRuns(audioEnabled, sessionId) /\ pushChannel' # pushChannel)
            => (intervalRef' /\ inflight' = inflight
                  /\ PollRuns(audioEnabled', sessionId'))]_vars

\* the push channel has failed and closed after the heartbeat had counted
\* missed pongs, and the poll is still registered
C21_Witness ==
    /\ PollRuns(audioEnabled, sessionId)
    /\ intervalRef
    /\ "onDisconnect" \in effects
    /\ state.error = ConnectionError
    /\ state.missedPongs > 0

\* the audio, video and agent views
Views(s) == <<s.audio, s.video, s.agent>>

\* C22: a malformed inbound frame is dropped: the step that handles a frame
\* that is no JSON, has no data, or whose data has none of the fields of
\* its type leaves the audio, video and agent views as they were and the
\* push channel (transport, reconnect timers, heartbeat) as it was.
C22_MalformedDropped ==
    [][\A t \in Sockets, f \in MalformedFrames :
          DashboardFrame(t, f) =>
              (Views(store') = Views(store) /\ pushChannel' = pushChannel)]_vars

\* C23: a frame whose type carries no view field (heartbeat, pong,
\* connected, disconnected, audio_status, session_state,
\* session_completed) or is unknown leaves the audio, video and agent
\* views unchanged: so does every step that hands a frame of a type other
\* than video_stats, audio_metrics and final_result to onMessage.
C23_NoViewFrames ==
    [][("onMessage" \in effects' /\ effects' \cap ViewTypes = {})
          => Views(store') = Views(store)]_vars

\* a session_completed frame was handled with all three views written
C23_Witness ==
    /\ "session_completed" \in effects
    /\ store.audio.duration > 0
    /\ store.video.totalFrames > 0
    /\ store.agent.finalState \in Verdicts

\* C24: an error frame sets only the error slot, to the frame's message:
\* the step that handles it leaves every other field of the store (the
\* views, the session and its status, the connection state) and the push
\* channel as they were.
C24_ErrorFrameOnlyErrorSlot ==
    [][\A t \in Sockets, f \in ErrorFrames :
          DashboardFrame(t, f) =>
              /\ store' = [store EXCEPT !.error = f.data.message]
              /\ pushChannel' = pushChannel]_vars

\* an error frame was handled while the session was recording with the
\* views written: the error slot holds its message, the recording goes on
C24_Witness ==
    /\ "error" \in effects
    /\ store.error = "camera lost"
    /\ store.session.status = "recording"
    /\ store.audio.status = "recording"
    /\ store.video.isRecording
    /\ store.connection.isConnected

C26_OpenConnects ==
    [][\A t \in Sockets :
          TransportOpen(t) =>
              /\ state'.isConnected
              /\ ~state'.isConnecting
              /\ state'.reconnectCount = 0
              /\ state'.error = Null
              /\ pingIntervalRef'
              /\ missedPongsRef' = 0
              /\ "onConnect" \in effects']_vars

\* a socket opened by a reconnect attempt: the probes of the connection
\* before it were counted (state.missedPongs is what the last probe left),
\* the attempt counter and the heartbeat's counter are back at 0
C26_Witness ==
    /\ "onConnect" \in effects
    /\ state.missedPongs > 0
    /\ state.isConnected
    /\ state.reconnectCount = 0
    /\ pingIntervalRef
    /\ missedPongsRef = 0

(***************************************************************************)
(* C27: the connection is in exactly one of disconnected, connecting,      *)
(* connected, reconnecting at every instant: the flags isConnected and     *)
(* isConnecting are never both true.                                       *)
(***************************************************************************)
C27_OneConnectionState ==
    ~(state.isConnected /\ state.isConnecting)

(***************************************************************************)
(* C28: a command sent while the push channel is not open fails fast:      *)
(* sendMessage returns false and logs a warning, it changes nothing of the *)
(* hook (nothing is queued), and a message is handed to a socket only by   *)
(* a sendMessage call made while that socket is open, so nothing is        *)
(* transmitted later when the channel reconnects.                          *)
(***************************************************************************)
C28_SendFailsFast ==
    /\ []("send" \in effects => IsOpen(H) /\ "return true" \in effects)
    /\ [][(SendMessage /\ ~IsOpen(H)) =>
              /\ effects' = {"console.warn", "return false"}
              /\ UNCHANGED <<sessionId, state, wsRef, pingIntervalRef,
                             reconnectTimeoutRef, shouldReconnectRef,
                             missedPongsRef, sockets, timers>>]_vars
    /\ [][~SendMessage => "send" \notin effects']_vars

\* a command refused after the connection was lost, with the reconnect
\* timeout pending
C28_Witness ==
    /\ "return false" \in effects
    /\ ~state.isConnected
    /\ IsPending(reconnectTimeoutRef)
    /\ wsRef # NullObject /\ wsRef.ready = "CLOSED"

(***************************************************************************)
(* C29: connect() with no session identifier is a no-op: no transport is   *)
(* opened and the connection state stays as it is, disconnected.           *)
(***************************************************************************)
C29_ConnectNeedsSession ==
    [][(Connect /\ sessionId = NoSession) =>
           UNCHANGED <<state, wsRef, sockets>>]_vars

(***************************************************************************)
(* C30: whenever agent.finalState changes from null to a verdict, a        *)
(* result_ready event is appended to the timeline at that transition.      *)
(***************************************************************************)
C30_ResultReadyRecorded ==
    [][(store.agent.finalState = Null /\ store'.agent.finalState \in Verdicts) =>
           /\ store'.events # << >>
           /\ store'.events[Len(store'.events)].type = "result_ready"
           /\ store'.events # store.events]_vars

(***************************************************************************)
(* SpecSessions: the connection manager under a consumer that goes from    *)
(* one session to the next (ids are SESS_<time>, so never the same twice   *)
(* in a row), the transport opening, failing and closing at any time.      *)
(***************************************************************************)
NextSessionIds == SessionIds \cup {"B"}

NextSessions ==
    \/ \E s \in NextSessionIds \cup {NoSession} : SetSessionId(s)
    \/ \E t \in Sockets : TransportOpen(t)
    \/ \E t \in Sockets, failed \in BOOLEAN : TransportClose(t, failed)
    \/ \E k \in Timers : ReconnectTimer(k)

SpecSessions == Init /\ [][NextSessions]_vars

(***************************************************************************)
(* SpecTimers: the two poll coordinators, useAudioMetrics and the frame    *)
(* poll of WebRTCVideoStream, under a parent that changes enabled, the     *)
(* session id and the polling rate in any order.  effects records the      *)
(* cleanups the change ran.                                                *)
(***************************************************************************)
Label(b, e) == IF b THEN {e} ELSE {}

\* the parent renders with audioEnabled = audio, videoEnabled = video and
\* session sid: each effect runs again when one of its dependencies changed
TimerProps(audio, video, sid) ==
    LET pollChanged == <<audio, sid>> # <<audioEnabled, sessionId>>
        streamChanged == <<StreamRuns(video, sid), sid>>
                             # <<StreamRuns(stream.enabled, sessionId), sessionId>>
    IN  /\ <<audio, video, sid>> # <<audioEnabled, stream.enabled, sessionId>>
        /\ (pollChanged /\ PollRuns(audio, sid)) => inflight < MaxInFlight
        /\ audioEnabled' = audio
        /\ sessionId' = sid
        /\ IF pollChanged
           THEN PollEffect(audio, sid)
           ELSE UNCHANGED <<intervalRef, intervals, inflight>>
        /\ IF streamChanged
           THEN StreamEffect(video, sid)
           ELSE stream' = [stream EXCEPT !.enabled = video]
        /\ effects' =
               Label(pollChanged /\ PollRuns(audioEnabled, sessionId),
                     "poll cleanup")
                 \cup Label(streamChanged /\ StreamRuns(stream.enabled, sessionId),
                            "stream cleanup")
        /\ UNCHANGED <<state, wsRef, pingIntervalRef, reconnectTimeoutRef,
                       shouldReconnectRef, missedPongsRef, sockets, timers,
                       store, analyzing, toast>>

\* the parent passes another pollingRate: the polling effect runs again
PollRate ==
    /\ PollRuns(audioEnabled, sessionId) => inflight < MaxInFlight
    /\ PollEffect(audioEnabled, sessionId)
    /\ effects' = IF PollRuns(audioEnabled, sessionId)
                  THEN {"poll cleanup", "pollingRate"} ELSE {"pollingRate"}
    /\ UNCHANGED <<sessionId, state, wsRef, pingIntervalRef,
                   reconnectTimeoutRef, shouldReconnectRef, missedPongsRef,
                   sockets, timers, store, audioEnabled, analyzing, toast,
                   stream>>

NextTimers ==
    \/ \E audio \in BOOLEAN, video \in BOOLEAN,
          sid \in NextSessionIds \cup {NoSession} : TimerProps(audio, video, sid)
    \/ PollRate
    \/ PollTick
    \/ \E m \in PollPayloads : FetchDone(m)
    \/ FetchFailed

SpecTimers == Init /\ [][NextTimers]_vars

(***************************************************************************)
(* SpecAnalyze: useSession under a consumer that calls startSession,       *)
(* endSession, analyzeSession and resetSession in any order, the analysis  *)
(* request resolving or rejecting at any time, with the error toast.       *)
(***************************************************************************)
\* endSession()
EndSession ==
    /\ store' = setSession(store, [status |-> "processing"])
    /\ UNCHANGED notStore

\* analyzeSession() up to its await, called in any state of the session
\* (one request at a time)
AnalyzeSession ==
    /\ ~analyzing
    /\ IF store.session.id = NoSession
       THEN store' = setError(store, "No active session") /\ UNCHANGED analyzing
       ELSE store' = setError(setLoading(store, TRUE), Null) /\ analyzing' = TRUE
    /\ ErrorToast
    /\ UNCHANGED <<hookVars, audioEnabled, intervalRef, intervals, inflight, stream>>

NextAnalyze ==
    \/ \E sid \in SessionIds : StoreSetSession(sid)
    \/ EndSession
    \/ AnalyzeSession
    \/ \E r \in FinalResults : AnalyzeDone(r)
    \/ AnalyzeFailed
    \/ StoreResetSession
    \/ ToastTimer
    \/ ToastFade
    \/ ToastDismiss

SpecAnalyze == Init /\ [][NextAnalyze]_vars

(***************************************************************************)
(* SpecNotify: the store's subscribers.  A setter hands set() a partial    *)
(* state whose slice is a new object ({...prev.slice, ...state}); a        *)
(* subscriber on a selector, registered with no equality function, is      *)
(* called when the value selected is not Object.is the one selected        *)
(* before.  effects holds the selectors whose subscribers the last call    *)
(* notified.                                                               *)
(***************************************************************************)
\* the selectors components subscribe with: a whole slice (field "") or one
\* field of a slice
Selectors ==
    {[name |-> "state.connection", key |-> "connection", field |-> ""],
     [name |-> "state.audio", key |-> "audio", field |-> ""],
     [name |-> "state.video", key |-> "video", field |-> ""],
     [name |-> "state.agent", key |-> "agent", field |-> ""],
     [name |-> "state.audio.amplitude", key |-> "audio", field |-> "amplitude"],
     [name |-> "state.video.faceCount", key |-> "video", field |-> "faceCount"],
     [name |-> "state.agent.finalState", key |-> "agent", field |-> "finalState"],
     [name |-> "state.connection.isConnected", key |-> "connection",
      field |-> "isConnected"]}

Selected(sel, s) ==
    IF sel.field = "" THEN s[sel.key] ELSE s[sel.key][sel.field]

\* Object.is of what sel selects before and after a set() that wrote the
\* top-level key written: a slice object is itself unless it was written, a
\* field of a slice is a primitive
ObjectIs(sel, old, new, written) ==
    IF sel.field = ""
    THEN sel.key # written
    ELSE Selected(sel, old) = Selected(sel, new)

\* the subscribers called by a set() that wrote the key written
listeners(old, new, written) ==
    {sel.name : sel \in {x \in Selectors : ~ObjectIs(x, old, new, written)}}

notStoreNorEffects ==
    <<sessionId, state, wsRef, pingIntervalRef, reconnectTimeoutRef,
      shouldReconnectRef, missedPongsRef, sockets, timers, audioEnabled,
      intervalRef, intervals, inflight, analyzing, toast, stream>>

NotifySetAudioState(p) ==
    /\ store' = setAudioState(store, p)
    /\ effects' = listeners(store, store', "audio")
    /\ UNCHANGED notStoreNorEffects

NotifySetVideoState(p) ==
    /\ store' = setVideoState(store, p)
    /\ effects' = listeners(store, store', "video")
    /\ UNCHANGED notStoreNorEffects

NotifySetAgentState(p) ==
    /\ store' = setAgentState(store, p)
    /\ effects' = listeners(store, store', "agent")
    /\ UNCHANGED notStoreNorEffects

NotifySetConnectionState(p) ==
    /\ store' = setConnectionState(store, p)
    /\ effects' = listeners(store, store', "connection")
    /\ UNCHANGED notStoreNorEffects

NextNotify ==
    \/ \E p \in AudioPartials : NotifySetAudioState(p)
    \/ \E p \in VideoPartials : NotifySetVideoState(p)
    \/ \E p \in AgentPartials : NotifySetAgentState(p)
    \/ \E p \in ConnectionPartials : NotifySetConnectionState(p)

SpecNotify == Init /\ [][NextNotify]_vars

(***************************************************************************)
(* Claims on the timeline, superseded transports, timers and the analysis  *)
(* request.                                                                *)
(***************************************************************************)
\* the session_start events the timeline holds for session sid
SessionStarts(sid) ==
    {i \in DOMAIN store.events :
         /\ store.events[i].type = "session_start"
         /\ store.events[i].sessionId = sid}

\* C31: each session contributes exactly one session_start event to the
\* timeline, however many times the push channel reconnects during it (in
\* SpecLive a session is created once, by Start Recording): the timeline
\* never holds two session_start events of one session.
C31_OneSessionStart ==
    \A sid \in SessionIds : Cardinality(SessionStarts(sid)) <= 1

\* C32: a subscriber registered on a projection is notified only when the
\* projected slice changes by value, also when the slice is a whole view:
\* every selector whose subscribers a store update notifies selects a value
\* different from the one it selected before the update.
C32_NotifiedOnlyOnChange ==
    [][\A sel \in Selectors :
          sel.name \in effects' => Selected(sel, store') # Selected(sel, store)]_vars

\* C33: after the session id has changed away from session s (to another
\* session or to none), no transport to s is opened again: while s is not
\* the session, no step adds a connecting socket for s, whether by a close
\* event or by a reconnect timeout of the superseded session.
C33_NoTransportToSupersededSession ==
    [][\A s \in NextSessionIds :
          (sessionId # s /\ sessionId' # s) =>
              NumAttempts(s)' <= NumAttempts(s)]_vars

\* no transport event and no reconnect timeout is outstanding: every socket
\* alive is open and no timeout is pending
Quiescent ==
    /\ \A t \in Sockets : t.ws.ready = "OPEN"
    /\ Timers = {}

\* C34: the reported connection flag agrees with the transport the manager
\* currently owns: in every quiescent state isConnected is true exactly
\* when the current transport (wsRef) is open, and the open or close event
\* of a socket that wsRef no longer holds never changes isConnected.
C34_FlagAgreesWithTransport ==
    /\ [](Quiescent => (state.isConnected <=> IsOpen(H)))
    /\ [][\A t \in Sockets :
             (~t.cur /\ (TransportOpen(t) \/ \E failed \in BOOLEAN :
                                                 TransportClose(t, failed)))
                 => state'.isConnected = state.isConnected]_vars

\* C35: while the current transport is open the heartbeat interval stays
\* registered: the close event of an older, superseded socket never stops
\* the heartbeat of the current connection.
C35_HeartbeatWhileOpen ==
    IsOpen(H) => pingIntervalRef

\* C36: at most one reconnect timeout is pending at any time and the
\* manager holds its handle: every pending timeout is the one
\* reconnectTimeoutRef holds, which is what disconnect() clears.
C36_OneReconnectTimer ==
    /\ NumTimers(H) <= 1
    /\ timers = EmptyBag

\* C37: at most one poll timer is active per poll coordinator after any
\* sequence of enable, disable, session-id change and polling-rate change,
\* and it is the one the coordinator's ref holds: a change of parameters
\* has cancelled the old timer when the new one is registered.
C37_OnePollTimer ==
    /\ intervals = (IF intervalRef THEN 1 ELSE 0)
    /\ stream.intervals = (IF stream.pollingRef = "live" THEN 1 ELSE 0)

\* both coordinators were polling and went on to another session: the
\* cleanups ran and each has one timer, for session "B"
C37_Witness ==
    /\ {"poll cleanup", "stream cleanup"} \subseteq effects
    /\ sessionId = "B"
    /\ intervals = 1
    /\ stream.intervals = 1

\* C38: a dismissal timer started for one error never clears a different,
\* newer error: while the dismissal timeout of the error in the slot is
\* still pending (its duration has not elapsed), the error leaves the slot
\* only by being replaced by another error or dismissed by the user.
C38_ErrorStaysForDuration ==
    [][(toast.timer # Null /\ store.error = toast.timer
            /\ store'.error # store.error)
          => (~Falsy(store'.error) \/ ToastDismiss)]_vars

\* C39: analyzeSession is all-or-nothing on the session lifecycle.  With no
\* session id it sets the error 'No active session' and changes nothing
\* else; on a failed analysis it records the error and leaves the session
\* and the agent state unchanged; status becomes complete only when the
\* analysis resolves, and a result carrying a verdict sets that verdict;
\* in every case isLoading ends false (it is true only while the request
\* is awaited).
C39_AnalyzeAllOrNothing ==
    /\ [](store.isLoading => analyzing)
    /\ [][(AnalyzeSession /\ store.session.id = NoSession) =>
              /\ store' = [store EXCEPT !.error = "No active session"]
              /\ analyzing' = analyzing]_vars
    /\ [][AnalyzeFailed =>
              /\ store'.error = "Analysis failed"
              /\ ~store'.isLoading
              /\ store'.session = store.session
              /\ store'.agent = store.agent]_vars
    /\ [][\A r \in FinalResults :
              ("final_state" \in DOMAIN r /\ AnalyzeDone(r)) =>
                  /\ store'.session.status = "complete"
                  /\ store'.agent.finalState = r.final_state
                  /\ ~store'.isLoading]_vars
    /\ [][(store.session.status # "complete"
              /\ store'.session.status = "complete")
             => \E r \in FinalResults : AnalyzeDone(r)]_vars

\* a failed analysis of a stopped session: the error is recorded, the
\* session is still processing, no verdict is set and isLoading is false
C39_Witness ==
    /\ store.error = "Analysis failed"
    /\ ~analyzing
    /\ ~store.isLoading
    /\ store.session.status = "processing"
    /\ store.agent.finalState = Null

====
